---- MODULE Spec2Model ----
(***************************************************************************)
(* State machine of ServiceDiscovery (src/src/service/servicediscovery.cpp)*)
(* : the DNS-SD resolver, its query registry, the instance tables, the     *)
(* projection to the user queries and the lookup lifecycle.                *)
(*                                                                         *)
(* Every handler of the class runs to completion on the event loop, so a   *)
(* handler is one action.  The handlers are written as operators over a    *)
(* record S holding all fields of the object (Cur), composed in the order  *)
(* the code calls them; an action commits the record a handler returns.    *)
(***************************************************************************)
EXTENDS Integers, Sequences, FiniteSets, TLC

VARIABLES
    running,            \* m_running
    networkReady,       \* m_networkReady
    lookupReady,        \* m_lookupReady
    lookupMode,         \* m_lookupMode
    jdns,               \* m_jdns != nullptr
    timerActive,        \* m_unicastLookupTimer->isActive()
    nextId,             \* next query id of the current QJDns object
    jdnsQueries,        \* query ids started and not cancelled in the backend
    jdnsNameServers,    \* list last given to QJDns::setNameServers
    nameServers,        \* m_nameServers
    queryIdTypeMap,     \* m_queryIdTypeMap      (idToRecordType)
    queryIdServiceMap,  \* m_queryIdServiceMap   (idToServiceType)
    queryIdItemMap,     \* m_queryIdItemMap      (idToInstance)
    serviceItemsMap,    \* m_serviceItemsMap     (InstanceTable)
    serviceTypeMap,     \* m_serviceTypeMap      (TypeTable)
    items,              \* the live ServiceDiscoveryItem objects, by address
    serviceLists,       \* the ServiceDiscoveryQuery objects of m_serviceLists
    filter,             \* m_filter
    networkSession,     \* m_networkSession: "none", "opening", "open", "closed"
    configUpdate,       \* updateConfigurations() called, updateCompleted due
    configTimer,        \* m_networkConfigTimer->isActive()
    crashed,            \* the process died on an access through a null pointer
    event               \* the last handler, where a property speaks of it

vars == <<running, networkReady, lookupReady, lookupMode, jdns, timerActive,
          nextId, jdnsQueries, jdnsNameServers, nameServers, queryIdTypeMap,
          queryIdServiceMap, queryIdItemMap, serviceItemsMap, serviceTypeMap,
          items, serviceLists, filter, networkSession, configUpdate,
          configTimer, crashed, event>>

\* the link watchdog: the session, the configuration manager and its timer
netVars == <<networkSession, configUpdate, configTimer>>

----------------------------------------------------------------------------
(* Bounds of the model *)

\* query ids one QJDns object hands out: 0 .. MaxId-1
MaxId == 5
\* query ids one QJDns object hands out over the refresh cycles of a unicast
\* lookup: 0 .. MaxCycleId-1
MaxCycleId == 9
\* ServiceDiscoveryItem objects alive or still referenced at one time
MaxItems == 2
\* answer records in one response
MaxRecords == 2

\* m_unicastErrorThreshold, set in the constructor
UnicastErrorThreshold == 2

Ids == 0 .. (MaxId - 1)
ItemIds == 1 .. MaxItems
NullItem == 0

MulticastDNS == "MulticastDNS"
UnicastDNS == "UnicastDNS"
LookupModes == {MulticastDNS, UnicastDNS}

\* QJDns::Type; NoType is the default-constructed value QMap::value returns
Ptr == "Ptr"
Txt == "Txt"
Srv == "Srv"
A == "A"
Aaaa == "Aaaa"
NoType == "NoType"

\* service types a query can name, in QMap key order; "" is the empty string
ServiceTypeOrder == <<"s1", "s2">>
ServiceTypes == {ServiceTypeOrder[i] : i \in 1 .. Len(ServiceTypeOrder)}
NoServiceType == ""

----------------------------------------------------------------------------
(* Strings are sequences of characters *)

DotUnderscore == <<".", "_">>

\* QByteArray::indexOf: 0-based position of the first occurrence, or -1
IndexOf(s, pat) ==
    LET hits == {i \in 0 .. (Len(s) - Len(pat)) :
                    SubSeq(s, i + 1, i + Len(pat)) = pat}
    IN  IF hits = {} THEN -1 ELSE CHOOSE i \in hits : \A j \in hits : i <= j

\* QByteArray::left
Left(s, len) ==
    IF len >= Len(s) THEN s
    ELSE IF len < 0 THEN <<>>
    ELSE SubSeq(s, 1, len)

\* a wildcard pattern (WildcardUnix: * and ?) matches the whole of s
RECURSIVE GlobMatch(_, _)
GlobMatch(pat, s) ==
    IF pat = <<>> THEN s = <<>>
    ELSE IF Head(pat) = "*"
         THEN \E k \in 0 .. Len(s) : GlobMatch(Tail(pat), SubSeq(s, k + 1, Len(s)))
    ELSE IF s = <<>> THEN FALSE
    ELSE (Head(pat) = "?" \/ Head(pat) = Head(s)) /\ GlobMatch(Tail(pat), Tail(s))

\* QString::contains(QRegExp): the pattern matches some part of s
ContainsMatch(s, pat) ==
    \E i \in 1 .. (Len(s) + 1) : \E j \in (i - 1) .. Len(s) :
        GlobMatch(pat, SubSeq(s, i, j))

\* QStringList::filter(QRegExp): the strings that contain a match, in order
StringListFilter(list, pat) ==
    SelectSeq(list, LAMBDA t : ContainsMatch(t, pat))

----------------------------------------------------------------------------
(* QMap *)

MapInsert(m, k, v) == [x \in (DOMAIN m) \cup {k} |-> IF x = k THEN v ELSE m[x]]
MapRemove(m, k) == [x \in (DOMAIN m) \ {k} |-> m[x]]
MapValue(m, k, default) == IF k \in DOMAIN m THEN m[k] ELSE default
EmptyMap == [x \in {} |-> 0]

\* the keys of a map over service types, in iteration order
RECURSIVE KeysInOrder(_, _)
KeysInOrder(keys, i) ==
    IF i > Len(ServiceTypeOrder) THEN <<>>
    ELSE (IF ServiceTypeOrder[i] \in keys THEN <<ServiceTypeOrder[i]>> ELSE <<>>)
         \o KeysInOrder(keys, i + 1)

SeqRemoveAt(s, i) == SubSeq(s, 1, i - 1) \o SubSeq(s, i + 1, Len(s))
SeqRange(s) == {s[i] : i \in 1 .. Len(s)}

----------------------------------------------------------------------------------------------------------------------------------------
(* The object as one record.  A handler is computed to its end; where it    *)
(* goes through a null pointer the access is skipped and nullAccess is set: *)
(* the action then either commits that result or lets the process die.      *)
(* ret is the pointer the last addItem returned; full is set when the       *)
(* handler needs more objects than the model holds.                         *)

Cur ==
    [running |-> running, networkReady |-> networkReady,
     lookupReady |-> lookupReady, lookupMode |-> lookupMode, jdns |-> jdns,
     timerActive |-> timerActive, nextId |-> nextId,
     jdnsQueries |-> jdnsQueries, jdnsNameServers |-> jdnsNameServers,
     nameServers |-> nameServers, queryIdTypeMap |-> queryIdTypeMap,
     queryIdServiceMap |-> queryIdServiceMap, queryIdItemMap |-> queryIdItemMap,
     serviceItemsMap |-> serviceItemsMap, serviceTypeMap |-> serviceTypeMap,
     items |-> items, serviceLists |-> serviceLists, filter |-> filter,
     ret |-> NullItem, full |-> FALSE, nullAccess |-> FALSE]

\* an access through a null pointer was made on the way to state S
NullAccess(S) == [S EXCEPT !.nullAccess = TRUE]

----------------------------------------------------------------------------
(* ServiceDiscoveryItem *)

NewItem ==
    [name |-> <<>>, type |-> NoServiceType, txtRecords |-> <<>>,
     hostName |-> <<>>, port |-> 0, hostAddress |-> <<>>,
     outstandingRequests |-> {}, updated |-> FALSE, errorCount |-> 0,
     answered |-> {}, resolvedInCycle |-> FALSE, missed |-> 0]

AddOutstandingRequest(S, item, id) ==
    IF item = NullItem THEN NullAccess(S)
    ELSE [S EXCEPT !.items[item].outstandingRequests = @ \cup {id}]

RemoveOutstandingRequest(S, item, id) ==
    IF item = NullItem THEN NullAccess(S)
    ELSE [S EXCEPT !.items[item].outstandingRequests = @ \ {id}]

\* answered, resolvedInCycle and missed are history.  answered: the record
\* types answered for the item so far; resolvedInCycle: the item became fully
\* resolved since the last refresh of its service type; missed: the refreshes
\* in a row that found it not resolved since the refresh before
SetTxtRecords(S, item, texts) ==
    IF item = NullItem THEN NullAccess(S)
    ELSE [S EXCEPT !.items[item].txtRecords = texts,
                   !.items[item].answered = @ \cup {Txt}]

SetHostNameAndPort(S, item, name, port) ==
    IF item = NullItem THEN NullAccess(S)
    ELSE [S EXCEPT !.items[item].hostName = name,
                   !.items[item].port = port,
                   !.items[item].answered = @ \cup {Srv}]

SetHostAddress(S, item, address) ==
    IF item = NullItem THEN NullAccess(S)
    ELSE [S EXCEPT !.items[item].hostAddress = address,
                   !.items[item].answered = @ \cup {A}]

HasOutstandingRequests(S, item) == S.items[item].outstandingRequests # {}

----------------------------------------------------------------------------
(* QJDns *)

QueryStart(S) ==
    IF ~S.jdns THEN NullAccess(S)
    ELSE [S EXCEPT !.nextId = @ + 1, !.jdnsQueries = @ \cup {S.nextId}]

QueryCancel(S, id) ==
    IF ~S.jdns THEN NullAccess(S)
    ELSE [S EXCEPT !.jdnsQueries = @ \ {id}]

----------------------------------------------------------------------------
(* Filtering and projection to the user queries *)

NoFilter == [name |-> <<>>, txtRecords |-> <<>>]

RECURSIVE FilterTxtRecords(_, _)
FilterTxtRecords(txtRecords, patterns) ==
    IF patterns = <<>> THEN txtRecords
    ELSE FilterTxtRecords(StringListFilter(txtRecords, Head(patterns)), Tail(patterns))

FilterServiceDiscoveryItem(it, f) ==
    IF ~(f.name = <<>> \/ ContainsMatch(it.name, f.name)) THEN FALSE
    ELSE IF f.txtRecords # <<>>
            /\ FilterTxtRecords(it.txtRecords, f.txtRecords) = <<>> THEN FALSE
    ELSE TRUE

FilterServiceDiscoveryItems(S, list, primaryFilter, secondaryFilter) ==
    SelectSeq(list, LAMBDA i :
        /\ FilterServiceDiscoveryItem(S.items[i], primaryFilter)
        /\ FilterServiceDiscoveryItem(S.items[i], secondaryFilter))

\* as the projection without the test for a query of record type A
ProjectedItemsAlwaysFiltered(S, query, list) ==
    FilterServiceDiscoveryItems(S, list, S.filter, query.filter)

\* the list updateServiceType gives to one query of the service type
ProjectedItems(S, query, list) ==
    IF query.queryType = A
    THEN list
    ELSE FilterServiceDiscoveryItems(S, list, S.filter, query.filter)

UpdateServiceType(S, serviceType) ==
    IF serviceType \notin DOMAIN S.serviceItemsMap THEN S
    ELSE [S EXCEPT !.serviceLists =
            [q \in DOMAIN S.serviceLists |->
                IF S.serviceLists[q].serviceType = serviceType
                THEN [S.serviceLists[q] EXCEPT !.items =
                        ProjectedItems(S, S.serviceLists[q],
                                       S.serviceItemsMap[serviceType])]
                ELSE S.serviceLists[q]]]

RECURSIVE UpdateTypes(_, _)
UpdateTypes(S, types) ==
    IF types = <<>> THEN S
    ELSE UpdateTypes(UpdateServiceType(S, Head(types)), Tail(types))

UpdateAllServiceTypes(S) ==
    UpdateTypes(S, KeysInOrder(DOMAIN S.serviceItemsMap, 1))

----------------------------------------------------------------------------
(* Instance table *)

\* as stopItemQueries without the two remove() calls: the queries are
\* cancelled in the backend and stay in the registry
StopItemQueriesKeepRegistry(S, item) ==
    LET bound == {id \in DOMAIN S.queryIdItemMap : S.queryIdItemMap[id] = item}
    IN  IF bound = {} THEN S
        ELSE IF ~S.jdns THEN NullAccess(S)
        ELSE [S EXCEPT !.jdnsQueries = @ \ bound]

\* the query ids bound to an item are cancelled and deregistered
StopItemQueries(S, item) ==
    LET bound == {id \in DOMAIN S.queryIdItemMap : S.queryIdItemMap[id] = item}
        S1 == IF bound = {} THEN S
              ELSE IF ~S.jdns THEN NullAccess(S)
              ELSE [S EXCEPT !.jdnsQueries = @ \ bound]
    IN  [S1 EXCEPT !.queryIdItemMap = [id \in (DOMAIN @) \ bound |-> @[id]],
                   !.queryIdTypeMap = [id \in (DOMAIN @) \ bound |-> @[id]]]

\* deleteLater(): the object is gone when the handler has returned
DeleteItem(S, item) == [S EXCEPT !.items = MapRemove(@, item)]

\* addresses no live object, no registry entry and no user list holds
FreeItemIds(S) ==
    ItemIds \ ((DOMAIN S.items)
               \cup {S.queryIdItemMap[id] : id \in DOMAIN S.queryIdItemMap}
               \cup UNION {SeqRange(S.serviceLists[q].items) : q \in DOMAIN S.serviceLists})

\* index of the first item of the list with that name, 0 when there is none
FindByName(S, list, name) ==
    LET hits == {i \in 1 .. Len(list) : S.items[list[i]].name = name}
    IN  IF hits = {} THEN 0 ELSE CHOOSE i \in hits : \A j \in hits : i <= j

\* as addItem without the search for an item of that name
AddItemUnchecked(S, name, type) ==
    IF type \notin DOMAIN S.serviceItemsMap THEN [S EXCEPT !.ret = NullItem]
    ELSE LET list == S.serviceItemsMap[type]
             free == FreeItemIds(S)
         IN  IF free = {} THEN [S EXCEPT !.full = TRUE, !.ret = NullItem]
             ELSE LET item == CHOOSE i \in free : \A j \in free : i <= j
                  IN  [S EXCEPT !.items = MapInsert(@, item,
                                    [NewItem EXCEPT !.name = name, !.type = type]),
                                !.serviceItemsMap[type] = Append(list, item),
                                !.ret = item]

AddItem(S, name, type) ==
    IF type \notin DOMAIN S.serviceItemsMap THEN [S EXCEPT !.ret = NullItem]
    ELSE LET list == S.serviceItemsMap[type]
             found == FindByName(S, list, name)
             free == FreeItemIds(S)
         IN  IF found # 0 THEN [S EXCEPT !.ret = list[found]]
             ELSE IF free = {} THEN [S EXCEPT !.full = TRUE, !.ret = NullItem]
             ELSE LET item == CHOOSE i \in free : \A j \in free : i <= j
                  IN  [S EXCEPT !.items = MapInsert(@, item,
                                    [NewItem EXCEPT !.name = name, !.type = type]),
                                !.serviceItemsMap[type] = Append(list, item),
                                !.ret = item]

\* as removeItem without the call of stopItemQueries
RemoveItemKeepQueries(S, name, type) ==
    IF type \notin DOMAIN S.serviceItemsMap THEN S
    ELSE LET list == S.serviceItemsMap[type]
             found == FindByName(S, list, name)
         IN  IF found = 0 THEN S
             ELSE LET S1 == DeleteItem(S, list[found])
                      S2 == [S1 EXCEPT !.serviceItemsMap[type] = SeqRemoveAt(list, found)]
                  IN  UpdateServiceType(S2, type)

RemoveItem(S, name, type) ==
    IF type \notin DOMAIN S.serviceItemsMap THEN S
    ELSE LET list == S.serviceItemsMap[type]
             found == FindByName(S, list, name)
         IN  IF found = 0 THEN S
             ELSE LET S1 == DeleteItem(StopItemQueries(S, list[found]), list[found])
                      S2 == [S1 EXCEPT !.serviceItemsMap[type] = SeqRemoveAt(list, found)]
                  IN  UpdateServiceType(S2, type)

\* the items of the list from the last to the first: queries stopped, deleted
RECURSIVE ClearLoop(_, _, _)
ClearLoop(S, list, i) ==
    IF i < 1 THEN S
    ELSE ClearLoop(DeleteItem(StopItemQueries(S, list[i]), list[i]), list, i - 1)

ClearItems(S, type) ==
    IF type \notin DOMAIN S.serviceItemsMap THEN S
    ELSE LET list == S.serviceItemsMap[type]
             S1 == ClearLoop(S, list, Len(list))
             S2 == [S1 EXCEPT !.serviceItemsMap[type] = <<>>]
         IN  UpdateServiceType(S2, type)

\* as the body of the purge loop with the item removed when its error count
\* reaches the threshold
PurgeStepAtThreshold(S, list, i) ==
    LET item == list[i]
    IN  IF ~S.items[item].updated
        THEN LET S1 == [S EXCEPT !.items[item].errorCount = @ + 1]
             IN  IF S1.items[item].errorCount >= UnicastErrorThreshold
                 THEN [state |-> DeleteItem(StopItemQueries(S1, item), item),
                       list |-> SeqRemoveAt(list, i), modified |-> TRUE]
                 ELSE [state |-> S1, list |-> list, modified |-> FALSE]
        ELSE [state |-> [S EXCEPT !.items[item].updated = FALSE],
              list |-> list, modified |-> FALSE]

\* the body of the purge loop for the item at index i of the local list
PurgeStep(S, list, i) ==
    LET item == list[i]
    IN  IF ~S.items[item].updated
        THEN LET S1 == [S EXCEPT !.items[item].errorCount = @ + 1]
             IN  IF S1.items[item].errorCount > UnicastErrorThreshold
                 THEN [state |-> DeleteItem(StopItemQueries(S1, item), item),
                       list |-> SeqRemoveAt(list, i), modified |-> TRUE]
                 ELSE [state |-> S1, list |-> list, modified |-> FALSE]
        ELSE [state |-> [S EXCEPT !.items[item].updated = FALSE],
              list |-> list, modified |-> FALSE]

RECURSIVE PurgeLoop(_, _, _, _)
PurgeLoop(S, list, i, modified) ==
    IF i < 1 THEN [state |-> S, list |-> list, modified |-> modified]
    ELSE LET r == PurgeStep(S, list, i)
         IN  PurgeLoop(r.state, r.list, i - 1, modified \/ r.modified)

PurgeItems(S, serviceType) ==
    IF serviceType \notin DOMAIN S.serviceItemsMap THEN S
    ELSE LET list == S.serviceItemsMap[serviceType]
             r == PurgeLoop(S, list, Len(list), FALSE)
         IN  IF r.modified
             THEN UpdateServiceType(
                    [r.state EXCEPT !.serviceItemsMap[serviceType] = r.list],
                    serviceType)
             ELSE r.state

----------------------------------------------------------------------------
(* Type table *)

AddServiceType(S, serviceType, queryType) ==
    IF serviceType \in DOMAIN S.serviceItemsMap THEN S
    ELSE [S EXCEPT !.serviceItemsMap = MapInsert(@, serviceType, <<>>),
                   !.serviceTypeMap = MapInsert(@, serviceType, queryType)]

RemoveServiceType(S, serviceType) ==
    IF serviceType \notin DOMAIN S.serviceItemsMap THEN S
    ELSE [ClearItems(S, serviceType) EXCEPT
            !.serviceItemsMap = MapRemove(@, serviceType),
            !.serviceTypeMap = MapRemove(@, serviceType)]

RECURSIVE RemoveTypes(_, _)
RemoveTypes(S, types) ==
    IF types = <<>> THEN S
    ELSE RemoveTypes(RemoveServiceType(S, Head(types)), Tail(types))

RemoveAllServiceTypes(S) ==
    RemoveTypes(S, KeysInOrder(DOMAIN S.serviceItemsMap, 1))

----------------------------------------------------------------------------
(* PTR scans *)

\* the query ids registered for a service type
QueriesOfServiceType(S, serviceType) ==
    {id \in DOMAIN S.queryIdServiceMap : S.queryIdServiceMap[id] = serviceType}

\* the first of them in key order
FirstQueryOfServiceType(S, serviceType) ==
    CHOOSE id \in QueriesOfServiceType(S, serviceType) :
        \A j \in QueriesOfServiceType(S, serviceType) : id <= j

\* queryStart and the registration of the new id as the scan of the type
RegisterScan(S, serviceType) ==
    LET queryType == MapValue(S.serviceTypeMap, serviceType, NoType)
    IN  [QueryStart(S) EXCEPT
            !.queryIdTypeMap = MapInsert(@, S.nextId, queryType),
            !.queryIdServiceMap = MapInsert(@, S.nextId, serviceType)]

\* queryCancel and the removal of the id from the registry
DeregisterScan(S, queryId) ==
    [QueryCancel(S, queryId) EXCEPT
        !.queryIdTypeMap = MapRemove(@, queryId),
        !.queryIdServiceMap = MapRemove(@, queryId)]

\* as startQuery without the search for a running query of the type
StartQueryUnchecked(S, serviceType) == RegisterScan(S, serviceType)

StartQuery(S, serviceType) ==
    IF QueriesOfServiceType(S, serviceType) # {} THEN S
    ELSE RegisterScan(S, serviceType)

StopQuery(S, serviceType) ==
    IF QueriesOfServiceType(S, serviceType) = {} THEN S
    ELSE ClearItems(DeregisterScan(S, FirstQueryOfServiceType(S, serviceType)),
                    serviceType)

RefreshQuery(S, serviceType) ==
    IF QueriesOfServiceType(S, serviceType) = {} THEN S
    ELSE LET S1 == DeregisterScan(S, FirstQueryOfServiceType(S, serviceType))
         IN  RegisterScan(PurgeItems(S1, serviceType), serviceType)

RECURSIVE StartTypes(_, _)
StartTypes(S, types) ==
    IF types = <<>> THEN S
    ELSE StartTypes(StartQuery(S, Head(types)), Tail(types))

StartQueries(S) == StartTypes(S, KeysInOrder(DOMAIN S.serviceItemsMap, 1))

RECURSIVE StopTypes(_, _)
StopTypes(S, types) ==
    IF types = <<>> THEN S
    ELSE StopTypes(StopQuery(S, Head(types)), Tail(types))

StopQueries(S) == StopTypes(S, KeysInOrder(DOMAIN S.serviceItemsMap, 1))

RECURSIVE RefreshTypes(_, _)
RefreshTypes(S, types) ==
    IF types = <<>> THEN S
    ELSE RefreshTypes(RefreshQuery(S, Head(types)), Tail(types))

UnicastLookup(S) == RefreshTypes(S, KeysInOrder(DOMAIN S.serviceItemsMap, 1))

----------------------------------------------------------------------------
(* Service lists, filter, name servers *)

\* the loop over the queries of m_serviceLists; old holds the service types
\* of oldServiceTypeMap that no query has named yet; declared is history: an
\* updateServices call has seen the query with the service type it has now
RECURSIVE ServicesLoop(_, _, _)
ServicesLoop(S, q, old) ==
    IF q > Len(S.serviceLists) THEN [state |-> S, old |-> old]
    ELSE LET query == S.serviceLists[q]
         IN  IF query.serviceType # NoServiceType
             THEN LET S1 == AddServiceType(S, query.serviceType, query.queryType)
                      S2 == IF S1.running /\ S1.networkReady
                            THEN StartQuery(S1, query.serviceType)
                            ELSE S1
                      S3 == [S2 EXCEPT !.serviceLists[q].declared = TRUE]
                  IN  ServicesLoop(S3, q + 1, old \ {query.serviceType})
             ELSE ServicesLoop(S, q + 1, old)

\* the service types left in oldServiceTypeMap are stopped and removed
RECURSIVE RemoveLeftTypes(_, _)
RemoveLeftTypes(S, types) ==
    IF types = <<>> THEN S
    ELSE LET S1 == IF S.running /\ S.networkReady
                   THEN StopQuery(S, Head(types))
                   ELSE S
         IN  RemoveLeftTypes(RemoveServiceType(S1, Head(types)), Tail(types))

UpdateServices(S) ==
    LET r == ServicesLoop(S, 1, DOMAIN S.serviceItemsMap)
    IN  UpdateAllServiceTypes(RemoveLeftTypes(r.state, KeysInOrder(r.old, 1)))

\* as updateFilter refreshing the scans before it projects
UpdateFilterRefreshing(S) == UpdateAllServiceTypes(UnicastLookup(S))

UpdateFilter(S) == UpdateAllServiceTypes(S)

\* QJDns::systemInfo().nameServers
SystemNameServers == <<"system">>
\* a NameServer whose host address is null
NullNameServer == "null"

\* as updateNameServers without the test of the lookup mode
UpdateNameServersAnyMode(S) ==
    IF ~S.jdns THEN S
    ELSE LET given == SelectSeq(S.nameServers, LAMBDA n : n # NullNameServer)
             list == IF given = <<>> THEN SystemNameServers ELSE given
             S1 == [S EXCEPT !.jdnsNameServers = list]
         IN  IF S1.running THEN UnicastLookup(S1) ELSE S1

\* as updateNameServers pushing the user's list as it is
UpdateNameServersUserList(S) ==
    IF ~S.jdns \/ S.lookupMode # UnicastDNS THEN S
    ELSE LET S1 == [S EXCEPT !.jdnsNameServers = S.nameServers]
         IN  IF S1.running THEN UnicastLookup(S1) ELSE S1

UpdateNameServers(S) ==
    IF ~S.jdns \/ S.lookupMode # UnicastDNS THEN S
    ELSE LET given == SelectSeq(S.nameServers, LAMBDA n : n # NullNameServer)
             list == IF given = <<>> THEN SystemNameServers ELSE given
             S1 == [S EXCEPT !.jdnsNameServers = list]
         IN  IF S1.running THEN UnicastLookup(S1) ELSE S1

\* addNameServer, removeNameServer, clearNameServers: the list is changed
\* and nameServersChanged runs updateNameServers
AddNameServer(S, nameServer) ==
    UpdateNameServers([S EXCEPT !.nameServers = Append(@, nameServer)])

\* index counts from 0
RemoveNameServer(S, index) ==
    UpdateNameServers([S EXCEPT !.nameServers = SeqRemoveAt(@, index + 1)])

ClearNameServers(S) ==
    UpdateNameServers([S EXCEPT !.nameServers = <<>>])

----------------------------------------------------------------------------
(* Lookup lifecycle *)

\* the value initializeMdns returns when QJDns::init returns ok
InitializeMdnsResult(S, ok) == S.jdns \/ ok

\* a failed init leaves no backend object
InitializeMdns(S, ok) ==
    IF S.jdns THEN S
    ELSE IF ~ok THEN S
    ELSE LET S1 == [S EXCEPT !.jdns = TRUE, !.nextId = 0, !.jdnsQueries = {},
                             !.jdnsNameServers = <<>>, !.lookupReady = TRUE]
             S2 == IF S1.lookupMode = UnicastDNS THEN UpdateNameServers(S1) ELSE S1
             S3 == IF S2.running THEN UpdateServices(S2) ELSE S2
         IN  IF S3.running /\ S3.lookupMode = UnicastDNS
             THEN [S3 EXCEPT !.timerActive = TRUE]
             ELSE S3

\* as the running branch of deinitializeMdns without removeAllServiceTypes
DeinitializeRegistryOnly(S) ==
    [(IF S.lookupMode = UnicastDNS THEN [S EXCEPT !.timerActive = FALSE] ELSE S)
     EXCEPT !.queryIdItemMap = EmptyMap,
            !.queryIdServiceMap = EmptyMap,
            !.queryIdTypeMap = EmptyMap]

\* what deinitializeMdns does to the tables and the registry when running
DeinitializeRunning(S) ==
    [RemoveAllServiceTypes(
        IF S.lookupMode = UnicastDNS THEN [S EXCEPT !.timerActive = FALSE] ELSE S)
     EXCEPT !.queryIdItemMap = EmptyMap,
            !.queryIdServiceMap = EmptyMap,
            !.queryIdTypeMap = EmptyMap]

DeinitializeMdns(S) ==
    IF ~S.jdns THEN S
    ELSE [(IF S.running THEN DeinitializeRunning(S) ELSE S) EXCEPT
            !.jdns = FALSE, !.nextId = 0, !.jdnsQueries = {},
            !.jdnsNameServers = <<>>, !.lookupReady = FALSE]

NetworkSessionOpened(S, ok) ==
    LET S1 == [S EXCEPT !.networkReady = TRUE]
    IN  IF ~InitializeMdnsResult(S1, ok)
        THEN [InitializeMdns(S1, ok) EXCEPT !.networkReady = FALSE]
        ELSE InitializeMdns(S1, ok)

\* as networkSessionClosed without the call of deinitializeMdns
NetworkSessionClosedKeepLookup(S) == [S EXCEPT !.networkReady = FALSE]

NetworkSessionClosed(S) ==
    [DeinitializeMdns(S) EXCEPT !.networkReady = FALSE]

\* setRunning without the stop of the timer at 502-505
SetRunningTimerRunsOn(S, arg) ==
    IF S.running = arg THEN S
    ELSE LET S1 == [S EXCEPT !.running = arg]
         IN  IF ~S1.networkReady THEN S1
             ELSE IF S1.running
             THEN IF S1.lookupMode = UnicastDNS
                  THEN [StartQueries(S1) EXCEPT !.timerActive = TRUE]
                  ELSE StartQueries(S1)
             ELSE StopQueries(S1)

SetRunning(S, arg) ==
    IF S.running = arg THEN S
    ELSE LET S1 == [S EXCEPT !.running = arg]
         IN  IF ~S1.networkReady THEN S1
             ELSE IF S1.running
             THEN IF S1.lookupMode = UnicastDNS
                  THEN [StartQueries(S1) EXCEPT !.timerActive = TRUE]
                  ELSE StartQueries(S1)
             ELSE StopQueries(IF S1.lookupMode = UnicastDNS
                              THEN [S1 EXCEPT !.timerActive = FALSE]
                              ELSE S1)

SetLookupMode(S, arg, ok) ==
    IF S.lookupMode = arg THEN S
    ELSE LET ready == S.lookupReady
             S1 == IF ready THEN DeinitializeMdns(S) ELSE S
             S2 == [S1 EXCEPT !.lookupMode = arg]
         IN  IF ~ready THEN S2
             ELSE IF ~InitializeMdnsResult(S2, ok)
             THEN [InitializeMdns(S2, ok) EXCEPT !.networkReady = FALSE]
             ELSE InitializeMdns(S2, ok)

SetFilter(S, arg) ==
    IF S.filter = arg THEN S
    ELSE UpdateAllServiceTypes([S EXCEPT !.filter = arg])

----------------------------------------------------------------------------
(* Results of the backend *)

\* QHostAddress::toString of the address 192.0.2.n
AddressToString(n) == <<"192.0.2.", n>>

\* a sub-query id is entered in the registry for an item
RegisterItemQuery(S, newId, type, item) ==
    [S EXCEPT !.queryIdTypeMap = MapInsert(@, newId, type),
              !.queryIdItemMap = MapInsert(@, newId, item)]

\* as the end of a sub-query without removeOutstandingRequest
FinishItemQueryKeepsRequest(S, id, item) ==
    [QueryCancel(S, id) EXCEPT
        !.queryIdTypeMap = MapRemove(@, id),
        !.queryIdItemMap = MapRemove(@, id)]

\* the answered sub-query: cancelled, taken off the item and off the registry
FinishItemQuery(S, id, item) ==
    [RemoveOutstandingRequest(QueryCancel(S, id), item, id) EXCEPT
        !.queryIdTypeMap = MapRemove(@, id),
        !.queryIdItemMap = MapRemove(@, id)]

\* a new sub-query of the given type for the item
StartItemQuery(S, type, item) ==
    RegisterItemQuery(AddOutstandingRequest(QueryStart(S), item, S.nextId),
                      S.nextId, type, item)

\* as the end of the loop body without the reset of the error count
ItemResolvedKeepCount(S, item) ==
    IF item = NullItem THEN S
    ELSE IF HasOutstandingRequests(S, item) THEN S
    ELSE [UpdateServiceType(S, S.items[item].type) EXCEPT
            !.items[item].updated = TRUE]

\* the end of the loop body: a fully resolved item reaches the user queries
ItemResolved(S, item) ==
    IF item = NullItem THEN S
    ELSE IF HasOutstandingRequests(S, item) THEN S
    ELSE [UpdateServiceType(S, S.items[item].type) EXCEPT
            !.items[item].updated = TRUE,
            !.items[item].errorCount = 0]

\* the instance name of a PTR target
InstanceName(target) == Left(target, IndexOf(target, DotUnderscore))

\* the sub-queries a PTR answer with ttl > 0 starts for the item
StartResolve(S, item) ==
    StartItemQuery(StartItemQuery(S, Txt, item), Srv, item)

PtrRecord(S, id, r) ==
    LET serviceType == MapValue(S.queryIdServiceMap, id, NoServiceType)
        name == InstanceName(r.name)
    IN  IF r.ttl > 0
        THEN LET S1 == AddItem(S, name, serviceType)
             IN  ItemResolved(StartResolve(S1, S1.ret), S1.ret)
        ELSE RemoveItem(S, name, serviceType)

TxtRecord(S, id, r) ==
    LET item == MapValue(S.queryIdItemMap, id, NullItem)
    IN  ItemResolved(SetTxtRecords(FinishItemQuery(S, id, item), item, r.texts), item)

\* as the SRV branch without the start of the address sub-query
SrvRecordNoAddressQuery(S, id, r) ==
    LET item == MapValue(S.queryIdItemMap, id, NullItem)
        S1 == FinishItemQuery(S, id, item)
    IN  ItemResolved(SetHostNameAndPort(S1, item, r.name, r.port), item)

SrvRecord(S, id, r) ==
    LET item == MapValue(S.queryIdItemMap, id, NullItem)
        S1 == StartItemQuery(FinishItemQuery(S, id, item), A, item)
    IN  ItemResolved(SetHostNameAndPort(S1, item, r.name, r.port), item)

AddressRecord(S, id, r) ==
    LET item == MapValue(S.queryIdItemMap, id, NullItem)
        S1 == FinishItemQuery(S, id, item)
    IN  ItemResolved(SetHostAddress(S1, item, AddressToString(r.address)), item)

ProcessRecord(S, id, type, r) ==
    IF type = Ptr THEN PtrRecord(S, id, r)
    ELSE IF type = Txt THEN TxtRecord(S, id, r)
    ELSE IF type = Srv THEN SrvRecord(S, id, r)
    ELSE IF type = A \/ type = Aaaa THEN AddressRecord(S, id, r)
    ELSE S

\* the loop over the answer records; type was read before the loop
RECURSIVE RecordLoop(_, _, _, _)
RecordLoop(S, id, type, records) ==
    IF records = <<>> THEN S
    ELSE RecordLoop(ProcessRecord(S, id, type, Head(records)), id, type, Tail(records))

\* as the lookup of the type with TXT for an id the registry does not hold
RecordTypeOfDefaultTxt(S, id) == MapValue(S.queryIdTypeMap, id, Txt)

\* the record type the registry holds for the id
RecordTypeOf(S, id) == MapValue(S.queryIdTypeMap, id, NoType)

ResultsReady(S, id, results) == RecordLoop(S, id, RecordTypeOf(S, id), results)

\* as error() dropping the query that failed from the registry
ErrorForgetsQuery(S, id, e) ==
    [S EXCEPT !.queryIdTypeMap = MapRemove(@, id),
              !.queryIdServiceMap = MapRemove(@, id),
              !.queryIdItemMap = MapRemove(@, id)]

\* QJDns::Error
ErrorKinds == {"Generic", "NXDomain", "Timeout", "Conflict"}

\* error(): a message is logged
Error(S, id, e) == S

----------------------------------------------------------------------------
(* What the backend and the user can send *)

NameA == <<"a", ".", "_", "s">>
NameB == <<"b", ".", "_", "s">>
\* a PTR target without "._"
NameMalformed == <<"a", "b">>
PtrNames == {NameA, NameB, NameMalformed}
Ttls == {0, 120}
TextX == <<"x">>
\* a TXT answer with one string, which the filter of the second query matches
TextLists == {<<TextX>>}
HostNames == {<<"h">>}
Ports == {631}
Addresses == {5, 6}

BlankRecord ==
    [type |-> NoType, name |-> <<>>, ttl |-> 120, texts |-> <<>>, port |-> 0,
     address |-> 0]

PtrRecords ==
    {[BlankRecord EXCEPT !.type = Ptr, !.name = n, !.ttl = t] : n \in PtrNames, t \in Ttls}
TxtRecords == {[BlankRecord EXCEPT !.type = Txt, !.texts = t] : t \in TextLists}
SrvRecords ==
    {[BlankRecord EXCEPT !.type = Srv, !.name = n, !.port = p] : n \in HostNames, p \in Ports}
AddressRecords == {[BlankRecord EXCEPT !.type = A, !.address = a] : a \in Addresses}

RecordsOfType(type) ==
    IF type = Ptr THEN PtrRecords
    ELSE IF type = Txt THEN TxtRecords
    ELSE IF type = Srv THEN SrvRecords
    ELSE AddressRecords

\* the responses with 1 .. MaxRecords answer records out of a set
Responses(records) == UNION {[1 .. n -> records] : n \in 1 .. MaxRecords}

\* one record of each type for an answer whose query is no longer known
LateRecords ==
    {[BlankRecord EXCEPT !.type = Ptr, !.name = NameA],
     [BlankRecord EXCEPT !.type = Txt, !.texts = <<TextX>>],
     [BlankRecord EXCEPT !.type = Srv, !.name = <<"h">>, !.port = 631],
     [BlankRecord EXCEPT !.type = A, !.address = 5]}

\* the backend answers a query with records of the type it was started for:
\* one record for a PTR, TXT or SRV query, 1 .. MaxRecords for an address
\* query; an answer whose query the engine no longer knows is of any type
ResponsesFor(id) ==
    IF id \notin DOMAIN queryIdTypeMap THEN {<<r>> : r \in LateRecords}
    ELSE IF queryIdTypeMap[id] \in {A, Aaaa}
    THEN Responses(RecordsOfType(queryIdTypeMap[id]))
    ELSE {<<r>> : r \in RecordsOfType(queryIdTypeMap[id])}

TxtFilter == [name |-> <<>>, txtRecords |-> <<TextX>>]

\* the ServiceDiscoveryQuery objects of m_serviceLists and what the user
\* writes to them: the first names no service type, the type of the second
\* query as an A query, or a type of its own; the second keeps its service
\* type and carries a filter
NewQuery ==
    [serviceType |-> NoServiceType, queryType |-> Ptr, filter |-> NoFilter,
     items |-> <<>>, declared |-> FALSE]
QueryChoices ==
    << {[serviceType |-> NoServiceType, queryType |-> Ptr, filter |-> NoFilter],
        [serviceType |-> "s1", queryType |-> A, filter |-> NoFilter],
        [serviceType |-> "s2", queryType |-> Ptr, filter |-> NoFilter]},
       {[serviceType |-> "s1", queryType |-> Ptr, filter |-> TxtFilter]} >>

\* the queries as the application declares them
DeclaredQueries ==
    << NewQuery,
       [serviceType |-> "s1", queryType |-> Ptr, filter |-> TxtFilter, items |-> <<>>,
        declared |-> FALSE] >>

NoEvent == [op |-> "none"]

\* the instances of the service type a PTR scan belongs to that carry the name
ItemsNamed(id, name) ==
    LET serviceType == MapValue(queryIdServiceMap, id, NoServiceType)
    IN  IF serviceType \in DOMAIN serviceItemsMap
        THEN {i \in SeqRange(serviceItemsMap[serviceType]) : items[i].name = name}
        ELSE {}

\* the case of a results callback that a property speaks of: a single PTR
\* announcement (malformed, of a known instance, of a new one), a single PTR
\* goodbye for a known instance, a response with several address records,
\* the single TXT or address record that answers the last outstanding
\* sub-query of an instance, or any other
ResultsCase(id, results) ==
    LET type == MapValue(queryIdTypeMap, id, NoType)
        r == results[1]
    IN  IF type = Ptr /\ Len(results) = 1 /\ r.ttl > 0
        THEN IF IndexOf(r.name, DotUnderscore) < 0 THEN "malformed"
             ELSE IF ItemsNamed(id, InstanceName(r.name)) # {} THEN "duplicate"
             ELSE "new"
        ELSE IF type = Ptr /\ Len(results) = 1 /\ r.ttl = 0
                /\ ItemsNamed(id, InstanceName(r.name)) # {}
        THEN "goodbye"
        ELSE IF type \in {A, Aaaa} /\ Len(results) > 1 /\ id \in DOMAIN queryIdItemMap
        THEN "addresses"
        ELSE IF type \in {Txt, A} /\ Len(results) = 1 /\ id \in DOMAIN queryIdItemMap
                /\ queryIdItemMap[id] \in DOMAIN items
                /\ items[queryIdItemMap[id]].outstandingRequests = {id}
        THEN "last"
        ELSE "other"

ResultsEvent(id, results) ==
    IF ResultsCase(id, results) = "other" THEN NoEvent
    ELSE IF ResultsCase(id, results) = "addresses"
    THEN [op |-> "resultsReady", case |-> "addresses",
          item |-> queryIdItemMap[id], last |-> results[Len(results)].address]
    ELSE IF ResultsCase(id, results) = "last"
    THEN [op |-> "resultsReady", case |-> "last", item |-> queryIdItemMap[id],
          type |-> queryIdTypeMap[id]]
    ELSE IF ResultsCase(id, results) = "goodbye"
    THEN [op |-> "resultsReady", case |-> "goodbye", scan |-> id,
          item |-> CHOOSE i \in ItemsNamed(id, InstanceName(results[1].name)) : TRUE]
    ELSE [op |-> "resultsReady", case |-> ResultsCase(id, results)]

\* a handler that took lookupReady from true to false; what it started from
ClosedEvent(S) ==
    IF lookupReady /\ ~S.lookupReady
    THEN [op |-> "lookupClosed", running |-> running,
          instances |-> items # EmptyMap]
    ELSE NoEvent

----------------------------------------------------------------------------
(* Actions: one per handler *)

Init ==
    /\ running = FALSE
    /\ networkReady = FALSE
    /\ lookupReady = FALSE
    /\ lookupMode = MulticastDNS
    /\ jdns = FALSE
    /\ timerActive = FALSE
    /\ nextId = 0
    /\ jdnsQueries = {}
    /\ jdnsNameServers = <<>>
    /\ nameServers = <<>>
    /\ queryIdTypeMap = EmptyMap
    /\ queryIdServiceMap = EmptyMap
    /\ queryIdItemMap = EmptyMap
    /\ serviceItemsMap = EmptyMap
    /\ serviceTypeMap = EmptyMap
    /\ items = EmptyMap
    /\ serviceLists = DeclaredQueries
    /\ filter = NoFilter
    /\ networkSession = "none"
    /\ configUpdate = FALSE
    /\ configTimer = FALSE
    /\ crashed = FALSE
    /\ event = NoEvent

\* the members as the handler leaves them
Commit(S) ==
    /\ running' = S.running
    /\ networkReady' = S.networkReady
    /\ lookupReady' = S.lookupReady
    /\ lookupMode' = S.lookupMode
    /\ jdns' = S.jdns
    /\ timerActive' = S.timerActive
    /\ nextId' = S.nextId
    /\ jdnsQueries' = S.jdnsQueries
    /\ jdnsNameServers' = S.jdnsNameServers
    /\ nameServers' = S.nameServers
    /\ queryIdTypeMap' = S.queryIdTypeMap
    /\ queryIdServiceMap' = S.queryIdServiceMap
    /\ queryIdItemMap' = S.queryIdItemMap
    /\ serviceItemsMap' = S.serviceItemsMap
    /\ serviceTypeMap' = S.serviceTypeMap
    /\ items' = S.items
    /\ serviceLists' = S.serviceLists
    /\ filter' = S.filter
    /\ crashed' = FALSE

\* the handler returned in state S
Return(S) ==
    /\ ~S.full
    /\ S.nextId <= MaxId
    /\ Commit(S)

\* the process is gone: no object is left
Halt ==
    /\ running' = FALSE
    /\ networkReady' = FALSE
    /\ lookupReady' = FALSE
    /\ lookupMode' = MulticastDNS
    /\ jdns' = FALSE
    /\ timerActive' = FALSE
    /\ nextId' = 0
    /\ jdnsQueries' = {}
    /\ jdnsNameServers' = <<>>
    /\ nameServers' = <<>>
    /\ queryIdTypeMap' = EmptyMap
    /\ queryIdServiceMap' = EmptyMap
    /\ queryIdItemMap' = EmptyMap
    /\ serviceItemsMap' = EmptyMap
    /\ serviceTypeMap' = EmptyMap
    /\ items' = EmptyMap
    /\ serviceLists' = DeclaredQueries
    /\ filter' = NoFilter
    /\ crashed' = TRUE

\* the process died in the handler
Died(S) ==
    /\ S.nullAccess
    /\ ~S.full
    /\ S.nextId <= MaxId
    /\ Halt

\* a handler that went through a null pointer either died there or went on
Handler(S, ev) ==
    /\ ~crashed
    /\ Return(S) \/ Died(S)
    /\ event' = ev
    /\ UNCHANGED netVars

DoSetRunning ==
    \E arg \in BOOLEAN : Handler(SetRunning(Cur, arg), NoEvent)

DoNetworkSessionOpened ==
    \E ok \in BOOLEAN : Handler(NetworkSessionOpened(Cur, ok), NoEvent)

DoNetworkSessionClosed ==
    Handler(NetworkSessionClosed(Cur), ClosedEvent(NetworkSessionClosed(Cur)))

DoSetLookupMode ==
    \E arg \in LookupModes, ok \in BOOLEAN :
        Handler(SetLookupMode(Cur, arg, ok), ClosedEvent(SetLookupMode(Cur, arg, ok)))

DoUpdateServices == Handler(UpdateServices(Cur), NoEvent)

DoUpdateFilter == Handler(UpdateFilter(Cur), NoEvent)

\* a change of the name servers that reaches a running multicast lookup
NameServersEvent ==
    IF jdns /\ running /\ lookupMode = MulticastDNS
    THEN [op |-> "updateNameServers"]
    ELSE NoEvent

DoUpdateNameServers == Handler(UpdateNameServers(Cur), NameServersEvent)

\* the timeout of m_unicastLookupTimer
DoUnicastLookup ==
    /\ timerActive
    /\ Handler(UnicastLookup(Cur), NoEvent)

DoResultsReady ==
    \E id \in Ids :
        \E results \in ResponsesFor(id) :
            /\ jdns
            /\ Handler(ResultsReady(Cur, id, results), ResultsEvent(id, results))

\* what the registry holds for the id of an error
ErrorEvent(id) ==
    [op |-> "error",
     known |-> IF id \in DOMAIN queryIdItemMap THEN "item"
               ELSE IF id \in DOMAIN queryIdTypeMap THEN "scan"
               ELSE "none"]

DoError ==
    \E id \in Ids :
        \E e \in ErrorKinds :
            /\ jdns
            /\ Handler(Error(Cur, id, e), ErrorEvent(id))

\* the user writes the properties of a query; no handler of the engine runs
UserSetsQuery ==
    \E q \in 1 .. Len(QueryChoices) :
        \E c \in QueryChoices[q] :
            Handler([Cur EXCEPT !.serviceLists[q].serviceType = c.serviceType,
                                !.serviceLists[q].queryType = c.queryType,
                                !.serviceLists[q].filter = c.filter,
                                !.serviceLists[q].declared =
                                    @ /\ c.serviceType = serviceLists[q].serviceType],
                    NoEvent)

Next ==
    \/ DoSetRunning
    \/ DoNetworkSessionOpened
    \/ DoNetworkSessionClosed
    \/ DoSetLookupMode
    \/ DoUpdateServices
    \/ DoUpdateFilter
    \/ DoUpdateNameServers
    \/ DoUnicastLookup
    \/ DoResultsReady
    \/ DoError
    \/ UserSetsQuery

Spec == Init /\ [][Next]_vars

----------------------------------------------------------------------------
(* The refresh cycles of a unicast lookup.  The lookup was set to unicast,  *)
(* set running and its session opened; from there the refresh timer, the    *)
(* name servers and the answers of the backend drive it.  The query ids of  *)
(* the backend run up to MaxCycleId.                                        *)

\* the object as the constructor leaves it
Constructed ==
    [running |-> FALSE, networkReady |-> FALSE, lookupReady |-> FALSE,
     lookupMode |-> MulticastDNS, jdns |-> FALSE, timerActive |-> FALSE,
     nextId |-> 0, jdnsQueries |-> {}, jdnsNameServers |-> <<>>,
     nameServers |-> <<>>, queryIdTypeMap |-> EmptyMap,
     queryIdServiceMap |-> EmptyMap, queryIdItemMap |-> EmptyMap,
     serviceItemsMap |-> EmptyMap, serviceTypeMap |-> EmptyMap,
     items |-> EmptyMap, serviceLists |-> DeclaredQueries, filter |-> NoFilter,
     ret |-> NullItem, full |-> FALSE, nullAccess |-> FALSE]

\* setLookupMode(UnicastDNS); setRunning(true); the session opened
CycleInit ==
    \E unicast \in {SetLookupMode(Constructed, UnicastDNS, TRUE)} :
      \E set \in {SetRunning(unicast, TRUE)} :
        \E started \in {NetworkSessionOpened(set, TRUE)} :
            /\ running = started.running
            /\ networkReady = started.networkReady
            /\ lookupReady = started.lookupReady
            /\ lookupMode = started.lookupMode
            /\ jdns = started.jdns
            /\ timerActive = started.timerActive
            /\ nextId = started.nextId
            /\ jdnsQueries = started.jdnsQueries
            /\ jdnsNameServers = started.jdnsNameServers
            /\ nameServers = started.nameServers
            /\ queryIdTypeMap = started.queryIdTypeMap
            /\ queryIdServiceMap = started.queryIdServiceMap
            /\ queryIdItemMap = started.queryIdItemMap
            /\ serviceItemsMap = started.serviceItemsMap
            /\ serviceTypeMap = started.serviceTypeMap
            /\ items = started.items
            /\ serviceLists = started.serviceLists
            /\ filter = started.filter
            /\ networkSession = "open"
            /\ configUpdate = FALSE
            /\ configTimer = TRUE
            /\ crashed = FALSE
            /\ event = NoEvent

CycleHandler(S, ev) ==
    /\ ~crashed
    /\ ~S.full
    /\ S.nextId <= MaxCycleId
    /\ Commit(S) \/ (S.nullAccess /\ Halt)
    /\ event' = ev
    /\ UNCHANGED netVars

\* history: the item the answered query id was bound to has no outstanding
\* request left after the callback
MarkResolved(S, id) ==
    LET item == MapValue(queryIdItemMap, id, NullItem)
    IN  IF item \in DOMAIN S.items /\ S.items[item].outstandingRequests = {}
        THEN [S EXCEPT !.items[item].resolvedInCycle = TRUE]
        ELSE S

\* history: a refresh went over the service types that have a scan; every
\* item of such a type that is left has missed one more cycle, or none if it
\* resolved since the refresh before
CountMissed(S) ==
    [S EXCEPT !.items =
        [i \in DOMAIN S.items |->
            IF QueriesOfServiceType(Cur, items[i].type) = {} THEN S.items[i]
            ELSE [S.items[i] EXCEPT
                    !.missed = IF items[i].resolvedInCycle THEN 0
                               ELSE items[i].missed + 1,
                    !.resolvedInCycle = FALSE]]]

\* a refresh; resolved: it removed an item that was fully resolved
RefreshEvent(S) ==
    [op |-> "unicastLookup",
     resolved |-> \E i \in (DOMAIN items) \ DOMAIN S.items :
                    items[i].outstandingRequests = {}]

\* the timeout of m_unicastLookupTimer
CycleUnicastLookup ==
    /\ timerActive
    /\ CycleHandler(CountMissed(UnicastLookup(Cur)), RefreshEvent(UnicastLookup(Cur)))

\* nameServersChanged: the name servers are pushed and the queries refreshed
CycleUpdateNameServers ==
    /\ jdns /\ lookupMode = UnicastDNS /\ running
    /\ CycleHandler(CountMissed(UpdateNameServers(Cur)),
                    RefreshEvent(UpdateNameServers(Cur)))

\* the backend answers a query the registry holds
CycleResultsReady ==
    \E id \in DOMAIN queryIdTypeMap :
        \E results \in ResponsesFor(id) :
            CycleHandler(MarkResolved(ResultsReady(Cur, id, results), id), NoEvent)

CycleNext ==
    \/ CycleUnicastLookup
    \/ CycleUpdateNameServers
    \/ CycleResultsReady

SpecCycle == CycleInit /\ [][CycleNext]_vars

----------------------------------------------------------------------------
(* The name servers of the application.  The user adds, removes and clears   *)
(* name servers while the lookup is set running, changes mode, gains and     *)
(* loses its session, and the scans are answered.  The list holds at most    *)
(* MaxNameServers entries and the query ids run up to MaxCycleId.            *)

MaxNameServers == 2

\* a NameServer with an address, and one whose address is null
NameServerChoices == {"ns1", NullNameServer}

NamesEvent == [op |-> "nameServers"]

NamesAdd ==
    \E n \in NameServerChoices :
        /\ Len(nameServers) < MaxNameServers
        /\ CycleHandler(AddNameServer(Cur, n), NamesEvent)

NamesRemove ==
    \E index \in 0 .. (Len(nameServers) - 1) :
        CycleHandler(RemoveNameServer(Cur, index), NamesEvent)

NamesClear == CycleHandler(ClearNameServers(Cur), NamesEvent)

NamesSetRunning ==
    \E arg \in BOOLEAN : CycleHandler(SetRunning(Cur, arg), NoEvent)

NamesSessionOpened == CycleHandler(NetworkSessionOpened(Cur, TRUE), NoEvent)

NamesSessionClosed == CycleHandler(NetworkSessionClosed(Cur), NoEvent)

NamesSetLookupMode ==
    \E arg \in LookupModes : CycleHandler(SetLookupMode(Cur, arg, TRUE), NoEvent)

\* the answers of the backend: announcements of two instances, one address
NamesRecords(type) ==
    IF type = Ptr
    THEN {[BlankRecord EXCEPT !.type = Ptr, !.name = n] : n \in {NameA, NameB}}
    ELSE IF type = A THEN {[BlankRecord EXCEPT !.type = A, !.address = 5]}
    ELSE RecordsOfType(type)

\* the backend answers a scan or a sub-query with one record
NamesResultsReady ==
    \E id \in DOMAIN queryIdTypeMap :
        \E r \in NamesRecords(queryIdTypeMap[id]) :
            CycleHandler(ResultsReady(Cur, id, <<r>>), NoEvent)

NamesNext ==
    \/ NamesAdd
    \/ NamesRemove
    \/ NamesClear
    \/ NamesSetRunning
    \/ NamesSessionOpened
    \/ NamesSessionClosed
    \/ NamesSetLookupMode
    \/ NamesResultsReady

SpecNames == Init /\ [][NamesNext]_vars

----------------------------------------------------------------------------
(* The link watchdog.  componentComplete creates the configuration manager  *)
(* and starts m_networkConfigTimer; the timer runs updateNetConfig, the     *)
(* manager answers updateConfigurations() with updateCompleted, which runs  *)
(* openNetworkSession; the session answers open() with opened.              *)

\* as the condition of updateNetConfig without the test of m_networkReady
NeedsConfigUpdateSessionOnly ==
    networkSession = "none" \/ networkSession # "open"

\* the condition under which updateNetConfig refreshes the configurations
NeedsConfigUpdate ==
    networkSession = "none" \/ networkSession # "open" \/ ~networkReady

\* history: the last init of the backend failed, or it succeeded (retry: after
\* a failed one)
InitEvent(S) ==
    IF ~S.jdns THEN [op |-> "initFailed"]
    ELSE [op |-> "initialized", retry |-> event.op = "initFailed"]

\* componentComplete -> initializeNetworkSession
RetryComponentComplete ==
    /\ ~crashed
    /\ ~configTimer
    /\ Commit(Cur)
    /\ configUpdate' = TRUE
    /\ configTimer' = TRUE
    /\ UNCHANGED <<networkSession, event>>

\* the timeout of m_networkConfigTimer
RetryUpdateNetConfig ==
    /\ ~crashed
    /\ configTimer
    /\ Commit(Cur)
    /\ configUpdate' = (configUpdate \/ NeedsConfigUpdate)
    /\ UNCHANGED <<networkSession, configTimer, event>>

\* updateCompleted; acceptable: a configuration with an accepted bearer exists
RetryOpenNetworkSession(acceptable) ==
    /\ ~crashed
    /\ configUpdate
    /\ Commit(Cur)
    /\ configUpdate' = FALSE
    /\ networkSession' = IF acceptable THEN "opening" ELSE networkSession
    /\ UNCHANGED <<configTimer, event>>

\* the session that was asked to open has opened; ok: QJDns::init succeeds
RetryNetworkSessionOpened(ok) ==
    /\ ~crashed
    /\ networkSession = "opening"
    /\ Return(NetworkSessionOpened(Cur, ok))
    /\ networkSession' = "open"
    /\ event' = InitEvent(NetworkSessionOpened(Cur, ok))
    /\ UNCHANGED <<configUpdate, configTimer>>

RetryNetworkSessionClosed ==
    /\ ~crashed
    /\ networkSession = "open"
    /\ Return(NetworkSessionClosed(Cur))
    /\ networkSession' = "closed"
    /\ UNCHANGED <<configUpdate, configTimer, event>>

RetrySetLookupMode ==
    \E arg \in LookupModes, ok \in BOOLEAN :
        /\ ~crashed
        /\ Return(SetLookupMode(Cur, arg, ok))
        /\ event' = IF lookupReady /\ arg # lookupMode
                     THEN InitEvent(SetLookupMode(Cur, arg, ok))
                     ELSE event
        /\ UNCHANGED netVars

RetrySetRunning ==
    \E arg \in BOOLEAN :
        /\ ~crashed
        /\ Return(SetRunning(Cur, arg))
        /\ UNCHANGED <<networkSession, configUpdate, configTimer, event>>

RetryNext ==
    \/ RetryComponentComplete
    \/ RetryUpdateNetConfig
    \/ \E acceptable \in BOOLEAN : RetryOpenNetworkSession(acceptable)
    \/ \E ok \in BOOLEAN : RetryNetworkSessionOpened(ok)
    \/ RetryNetworkSessionClosed
    \/ RetrySetLookupMode
    \/ RetrySetRunning

\* the component is completed and the watchdog timer keeps firing; the
\* manager answers, again and again with a configuration of an accepted
\* bearer
RetryFairness ==
    /\ WF_vars(RetryComponentComplete)
    /\ WF_vars(RetryUpdateNetConfig)
    /\ SF_vars(RetryOpenNetworkSession(TRUE))

SpecRetry == Init /\ [][RetryNext]_vars /\ RetryFairness

----------------------------------------------------------------------------
(* Properties *)

\* the instances of the instance tables
TableItems == UNION {SeqRange(serviceItemsMap[t]) : t \in DOMAIN serviceItemsMap}

\* the instances a user query lists, as far as they are live objects
ListedItems ==
    (UNION {SeqRange(serviceLists[q].items) : q \in DOMAIN serviceLists})
        \cap DOMAIN items

\* C1 Resolution gating: every instance in the list of a user query has no
\* outstanding request and has had its TXT, SRV and address sub-queries
\* answered at least once.
C1_ResolutionGating ==
    \A i \in ListedItems :
        /\ items[i].outstandingRequests = {}
        /\ {Txt, Srv, A} \subseteq items[i].answered

\* C2 No dangling instance binding: every instance the registry binds a
\* query id to is a live object and a member of the instance table of its
\* type.
C2_NoDanglingBinding ==
    \A id \in DOMAIN queryIdItemMap :
        LET i == queryIdItemMap[id]
        IN  i # NullItem =>
                /\ i \in DOMAIN items
                /\ items[i].type \in DOMAIN serviceItemsMap
                /\ i \in SeqRange(serviceItemsMap[items[i].type])

\* an instance was destroyed (the object before a live one is gone), some of
\* the query ids handed out are registered no more, and a live instance is
\* still bound in the registry
C2_Witness ==
    /\ ~crashed
    /\ 2 \in DOMAIN items
    /\ 1 \notin DOMAIN items
    /\ \E id \in DOMAIN queryIdItemMap : queryIdItemMap[id] = 2
    /\ \E id \in 0 .. (nextId - 1) : id \notin DOMAIN queryIdTypeMap

\* C3 Registry consistency: every registered query id is in exactly one of
\* queryIdServiceMap and queryIdItemMap, the keys of those two are
\* registered, and an id is in queryIdServiceMap exactly when its record
\* type is PTR, in queryIdItemMap exactly when it is TXT, SRV, A or AAAA.
C3_RegistryConsistency ==
    /\ (DOMAIN queryIdServiceMap) \cup (DOMAIN queryIdItemMap) = DOMAIN queryIdTypeMap
    /\ (DOMAIN queryIdServiceMap) \cap (DOMAIN queryIdItemMap) = {}
    /\ \A id \in DOMAIN queryIdTypeMap :
        /\ id \in DOMAIN queryIdServiceMap <=> queryIdTypeMap[id] = Ptr
        /\ id \in DOMAIN queryIdItemMap <=> queryIdTypeMap[id] \in {Txt, Srv, A, Aaaa}

\* C4 Lifecycle closure: when a handler has taken lookupReady from true to
\* false, the three registry maps and every instance table are empty in the
\* state it leaves, whether running was true or false.
C4_LifecycleClosure ==
    event.op = "lookupClosed" =>
        /\ ~lookupReady
        /\ queryIdTypeMap = EmptyMap
        /\ queryIdServiceMap = EmptyMap
        /\ queryIdItemMap = EmptyMap
        /\ TableItems = {}
        /\ items = EmptyMap

\* the lookup was closed while instances were in the tables
C4_Witness ==
    /\ ~crashed
    /\ event.op = "lookupClosed"
    /\ event.instances

\* C5 Exactly one PTR scan per service type: while running, networkReady
\* and lookupReady are all true every service type of the type table has
\* exactly one query id in queryIdServiceMap, and no service type ever has
\* more than one: startQuery on a type with a scan and stopQuery on a type
\* without one change nothing, refreshQuery puts one new id for the old one.
C5_OneScanPerType ==
    /\ (running /\ networkReady /\ lookupReady) =>
            \A t \in DOMAIN serviceTypeMap :
                Cardinality(QueriesOfServiceType(Cur, t)) = 1
    /\ \A t \in ServiceTypes :
        LET scans == QueriesOfServiceType(Cur, t)
        IN  /\ Cardinality(scans) <= 1
            /\ scans # {} => StartQuery(Cur, t) = Cur
            /\ scans = {} => StopQuery(Cur, t) = Cur
            /\ scans # {} =>
                    /\ QueriesOfServiceType(RefreshQuery(Cur, t), t) = {nextId}
                    /\ nextId \notin scans

\* two service types are scanned, and one of the scans is not the first
\* that was started for its type
C5_Witness ==
    /\ running /\ networkReady /\ lookupReady
    /\ DOMAIN serviceTypeMap = ServiceTypes
    /\ \A t \in ServiceTypes : Cardinality(QueriesOfServiceType(Cur, t)) = 1
    /\ \E id \in DOMAIN queryIdServiceMap : id >= Cardinality(ServiceTypes)

\* C6 Name uniqueness: no two instances of the instance table of a service
\* type have the same name.
C6_NameUniqueness ==
    \A t \in DOMAIN serviceItemsMap :
        \A i, j \in 1 .. Len(serviceItemsMap[t]) :
            items[serviceItemsMap[t][i]].name = items[serviceItemsMap[t][j]].name
                => i = j

\* a name was announced again and the table of its type holds one instance
C6_Witness ==
    /\ event.op = "resultsReady"
    /\ event.case = "duplicate"
    /\ \E t \in DOMAIN serviceItemsMap : Len(serviceItemsMap[t]) = 1

\* the query ids the backend has handed out that the registry does not hold
UnknownIds == (0 .. (nextId - 1)) \ DOMAIN queryIdTypeMap

\* C7 Late or unknown query id: a results callback for a query id that is
\* not in the registry changes nothing: the handler returns the state it was
\* entered in, whatever the answer records are.
C7_LateAnswerIgnored ==
    jdns =>
        \A id \in Ids \ DOMAIN queryIdTypeMap :
            \A results \in Responses(LateRecords) :
                ResultsReady(Cur, id, results) = Cur

\* the backend is up, instances with sub-queries under way exist, and a query
\* id handed out earlier has left the registry: its answer can still arrive
C7_Witness ==
    /\ jdns
    /\ UnknownIds # {}
    /\ queryIdItemMap # EmptyMap
    /\ \E i \in DOMAIN items : items[i].answered # {}

\* the step of a results callback with a single PTR announcement of the case
PtrStep(case) ==
    /\ event' = [op |-> "resultsReady", case |-> case]
    /\ ~crashed'

\* C8 Malformed PTR answer: a PTR answer with ttl > 0 whose name has no "._"
\* is ignored: no instance is created, no sub-query is started, the registry
\* and the instance tables are unchanged.
C8_MalformedPtrIgnored ==
    [][PtrStep("malformed") =>
        UNCHANGED <<items, serviceItemsMap, queryIdTypeMap, queryIdServiceMap,
                    queryIdItemMap, jdnsQueries, nextId>>]_vars

\* C9 Multiple answer records in one response: after a callback for an
\* address sub-query with two or more records the process lives and the
\* host address of the instance is the address of the last record.
C9_LastAddressWins ==
    (event.op = "resultsReady" /\ event.case = "addresses") =>
        /\ ~crashed
        /\ event.item \in DOMAIN items
        /\ items[event.item].hostAddress = AddressToString(event.last)

\* C10 Duplicate PTR announcement: a PTR answer with ttl > 0 that names an
\* existing instance starts no sub-query: the registry and the outstanding
\* requests of every instance are unchanged.
C10_DuplicateStartsNothing ==
    [][PtrStep("duplicate") =>
        /\ UNCHANGED <<queryIdTypeMap, queryIdServiceMap, queryIdItemMap>>
        /\ \A i \in DOMAIN items :
            items'[i].outstandingRequests = items[i].outstandingRequests]_vars

\* the step of a results callback with a single PTR goodbye (ttl 0) for an
\* instance of the table of the scan's service type
GoodbyeStep ==
    /\ event'.op = "resultsReady"
    /\ event'.case = "goodbye"
    /\ ~crashed'

\* C11 Goodbye: after a PTR answer with ttl 0 for an existing instance the
\* instance is in no instance table, every query id that was bound to it is
\* cancelled in the backend and gone from idToInstance and idToRecordType,
\* every user query of the service type lists the projection of the table
\* without the instance, and the PTR scan is registered under the same id.
C11_Goodbye ==
    [][GoodbyeStep =>
        LET i == event'.item
            scan == event'.scan
            t == queryIdServiceMap[scan]
            bound == {id \in DOMAIN queryIdItemMap : queryIdItemMap[id] = i}
            after == [items |-> items', filter |-> filter']
        IN  /\ i \notin DOMAIN items'
            /\ \A st \in DOMAIN serviceItemsMap' :
                    i \notin SeqRange(serviceItemsMap'[st])
            /\ bound \cap jdnsQueries' = {}
            /\ bound \cap DOMAIN queryIdItemMap' = {}
            /\ bound \cap DOMAIN queryIdTypeMap' = {}
            /\ \A q \in DOMAIN serviceLists' :
                    serviceLists'[q].serviceType = t =>
                        /\ i \notin SeqRange(serviceLists'[q].items)
                        /\ serviceLists'[q].items =
                             ProjectedItems(after, serviceLists'[q], serviceItemsMap'[t])
            /\ scan \in DOMAIN queryIdServiceMap'
            /\ queryIdServiceMap'[scan] = t
            /\ MapValue(queryIdTypeMap', scan, NoType) = Ptr
            /\ scan \in jdnsQueries']_vars

\* a goodbye removed one instance and left another of the same type with its
\* sub-queries; query ids handed out earlier are gone from the registry and
\* the scan goes on
C11_Witness ==
    /\ ~crashed
    /\ event.op = "resultsReady"
    /\ event.case = "goodbye"
    /\ event.item \notin DOMAIN items
    /\ event.scan \in DOMAIN queryIdServiceMap
    /\ UnknownIds # {}
    /\ \E id \in DOMAIN queryIdItemMap :
            items[queryIdItemMap[id]].type = queryIdServiceMap[event.scan]

\* the step of a refresh of the unicast lookup: every service type with a
\* scan went through one purge pass
RefreshStep ==
    /\ event'.op = "unicastLookup"
    /\ ~crashed'

C13_ErrorCountReset ==
    [][~crashed' =>
        \A i \in DOMAIN items' :
            /\ items'[i].updated = items'[i].resolvedInCycle
            /\ items'[i].errorCount =
                    IF items'[i].resolvedInCycle THEN 0 ELSE items'[i].missed
            /\ i \in DOMAIN items =>
                /\ (items[i].outstandingRequests # {}
                        /\ items'[i].outstandingRequests = {}) =>
                            (items'[i].updated /\ items'[i].errorCount = 0)
                /\ (event'.op # "unicastLookup"
                        /\ items[i].updated /\ items[i].errorCount = 0) =>
                            (items'[i].updated /\ items'[i].errorCount = 0)]_vars

\* an instance missed a cycle and then became fully resolved: its error
\* count is back at 0 before the next purge pass
C13_Witness ==
    /\ ~crashed
    /\ \E i \in DOMAIN items :
            /\ items[i].resolvedInCycle
            /\ items[i].missed > 0
            /\ items[i].outstandingRequests = {}
            /\ items[i].errorCount = 0
            /\ items[i].updated

\* the scans of a service type: the query ids idToServiceType binds to it
ScansOf(map, t) == {id \in DOMAIN map : map[id] = t}

\* C14 Mode flip while running: setLookupMode(UnicastDNS) on a running,
\* ready multicast lookup whose backend comes up again leaves no instance, an
\* empty idToInstance, empty tables and empty user query lists, lookupReady
\* in unicast mode, the name servers pushed before any scan was started (the
\* scans carry the first ids of the new backend), one scan for the service
\* type of every user query, the refresh timer running and running true; a
\* mode change with lookupReady false changes the mode and nothing else.
C14_ModeFlip ==
    [][(lookupMode' # lookupMode /\ ~crashed') =>
        /\ (running /\ lookupReady /\ lookupMode' = UnicastDNS /\ lookupReady') =>
            /\ items' = EmptyMap
            /\ queryIdItemMap' = EmptyMap
            /\ \A t \in DOMAIN serviceItemsMap' : serviceItemsMap'[t] = <<>>
            /\ \A q \in DOMAIN serviceLists' : serviceLists'[q].items = <<>>
            /\ jdns' /\ networkReady' /\ running' /\ timerActive'
            /\ jdnsNameServers' # <<>>
            /\ DOMAIN queryIdServiceMap' = 0 .. (nextId' - 1)
            /\ DOMAIN queryIdTypeMap' = DOMAIN queryIdServiceMap'
            /\ jdnsQueries' = DOMAIN queryIdServiceMap'
            /\ \A q \in DOMAIN serviceLists' :
                    serviceLists'[q].serviceType # NoServiceType =>
                        Cardinality(ScansOf(queryIdServiceMap',
                                            serviceLists'[q].serviceType)) = 1
        /\ ~lookupReady =>
            /\ ~jdns' /\ ~lookupReady'
            /\ UNCHANGED <<running, networkReady, lookupReady, jdns, timerActive,
                           nextId, jdnsQueries, jdnsNameServers, nameServers,
                           queryIdTypeMap, queryIdServiceMap, queryIdItemMap,
                           serviceItemsMap, serviceTypeMap, items, serviceLists,
                           filter>>]_vars

\* C15 Running set true starts every query: when setRunning(true) returns
\* with networkReady and lookupReady true, a scan is registered for the
\* service type of every user query that an earlier updateServices call has
\* seen, and in unicast mode the refresh timer is running.
C15_RunningStartsQueries ==
    [][(~running /\ running' /\ ~crashed' /\ networkReady' /\ lookupReady') =>
        /\ \A q \in DOMAIN serviceLists' :
                (serviceLists'[q].declared
                    /\ serviceLists'[q].serviceType # NoServiceType) =>
                        ScansOf(queryIdServiceMap', serviceLists'[q].serviceType) # {}
        /\ lookupMode' = UnicastDNS => timerActive']_vars

\* C16 Not running means nothing discovered: with running false no query id
\* is registered or live in the backend, every instance table is empty, every
\* user query lists nothing and the refresh timer is stopped.
C16_NotRunningNothingDiscovered ==
    (~running /\ ~crashed) =>
        /\ queryIdTypeMap = EmptyMap
        /\ queryIdServiceMap = EmptyMap
        /\ queryIdItemMap = EmptyMap
        /\ jdnsQueries = {}
        /\ TableItems = {}
        /\ items = EmptyMap
        /\ \A q \in DOMAIN serviceLists : serviceLists[q].items = <<>>
        /\ ~timerActive

\* lookupReady implies networkReady in the object S
ReadyOrder(S) == S.lookupReady => S.networkReady

\* C17 lookupReady implies networkReady: in every reachable state, and in
\* the states inside the handlers that write the two flags: session opened
\* (before and after initializeMdns, with an init that succeeds or fails),
\* session closed (after deinitializeMdns) and a mode change (after the
\* tear-down, after the new init and after a failed init).
C17_LookupReadyImpliesNetworkReady ==
    ~crashed =>
        /\ ReadyOrder(Cur)
        /\ ReadyOrder(DeinitializeMdns(Cur))
        /\ ReadyOrder(NetworkSessionClosed(Cur))
        /\ \A ok \in BOOLEAN :
            /\ ReadyOrder([Cur EXCEPT !.networkReady = TRUE])
            /\ ReadyOrder(InitializeMdns([Cur EXCEPT !.networkReady = TRUE], ok))
            /\ ReadyOrder(NetworkSessionOpened(Cur, ok))
            /\ \A arg \in LookupModes :
                /\ ReadyOrder([DeinitializeMdns(Cur) EXCEPT !.lookupMode = arg])
                /\ lookupReady =>
                    ReadyOrder(InitializeMdns(
                        [DeinitializeMdns(Cur) EXCEPT !.lookupMode = arg], ok))
                /\ ReadyOrder(SetLookupMode(Cur, arg, ok))

\* a lookup that was changed to unicast mode is ready on an open session and
\* resolves instances
C17_Witness ==
    /\ ~crashed
    /\ lookupReady
    /\ networkReady
    /\ lookupMode = UnicastDNS
    /\ queryIdItemMap # EmptyMap

\* the sessions asked to open do open and the init of the backend does not
\* fail forever: if a session is opening again and again, the lookup is ready
\* again and again
InitSucceedsEventually ==
    []<>(networkSession = "opening") => []<>lookupReady

\* C18 Init failure and retry: after a failed init of the backend, on the
\* session opened or inside a mode change, networkReady and lookupReady are
\* false and there is no backend object; and with the watchdog firing, a
\* session of an accepted bearer opening and the init not failing forever,
\* lookupReady becomes true again.
C18_InitFailureRetry ==
    /\ [](event.op = "initFailed" => (~networkReady /\ ~lookupReady /\ ~jdns))
    /\ (event.op = "initFailed") ~> (networkSession = "opening" \/ lookupReady)
    /\ InitSucceedsEventually => ((event.op = "initFailed") ~> lookupReady)

\* the init of the backend failed, the watchdog had the session opened again
\* and the lookup is ready
C18_Witness ==
    /\ event.op = "initialized"
    /\ event.retry
    /\ lookupReady
    /\ networkSession = "open"

\* C19 Backend query error is diagnostic only: a step of the error callback,
\* whatever the id (of an item query, of a scan, or unknown to the registry)
\* and whatever the kind of error, leaves the instance tables, every field
\* of every instance, the three registry maps, the type table, the lists of
\* the user queries and the lifecycle flags as they were, and the process
\* alive.
C19_ErrorIsDiagnosticOnly ==
    [][event'.op = "error" =>
        /\ ~crashed'
        /\ UNCHANGED <<serviceItemsMap, items, queryIdTypeMap,
                       queryIdServiceMap, queryIdItemMap, serviceTypeMap,
                       serviceLists, running, networkReady, lookupReady,
                       lookupMode, jdns, timerActive, jdnsQueries, nextId,
                       jdnsNameServers, nameServers, filter>>]_vars

\* an error arrived for the query of an instance that is still resolving
C19_Witness ==
    /\ ~crashed
    /\ event.op = "error"
    /\ event.known = "item"
    /\ \E i \in TableItems : items[i].outstandingRequests # {}

\* a step of a handler that starts and ends in multicast mode
MulticastStep ==
    /\ lookupMode = MulticastDNS
    /\ lookupMode' = MulticastDNS
    /\ ~crashed'

\* C20 Purge is unicast-only: the refresh timer is active in unicast mode
\* only, so its timeout never runs refreshQuery in multicast mode; in
\* multicast mode a change of the name servers changes nothing; and a step
\* in multicast mode neither increments the errorCount nor clears the
\* updated flag of an instance of a table, and removes an instance from the
\* tables only as the goodbye of that instance, with its service type
\* leaving the type table, or with the lookup stopped or torn down.
C20_PurgeIsUnicastOnly ==
    /\ [](timerActive => lookupMode = UnicastDNS)
    /\ [](lookupMode = MulticastDNS => UpdateNameServers(Cur) = Cur)
    /\ [][MulticastStep =>
            \A i \in TableItems :
                IF i \in TableItems'
                THEN /\ items'[i].errorCount <= items[i].errorCount
                     /\ items[i].updated => items'[i].updated
                ELSE \/ GoodbyeStep /\ event'.item = i
                     \/ items[i].type \notin DOMAIN serviceItemsMap'
                     \/ ~running'
                     \/ ~lookupReady']_vars

\* the name servers changed under a running multicast lookup that holds an
\* instance still resolving, and the instance is as it was
C20_Witness ==
    /\ ~crashed
    /\ event.op = "updateNameServers"
    /\ lookupMode = MulticastDNS
    /\ running
    /\ lookupReady
    /\ ~timerActive
    /\ \E i \in TableItems : ~items[i].updated /\ items[i].errorCount = 0

\* what a user of the engine sees of a state: the type table, the instance
\* tables with the fields of their instances, the registered query ids with
\* the queries live in the backend, and the list of every user query
Visible(S) ==
    [serviceTypeMap |-> S.serviceTypeMap,
     serviceItemsMap |-> S.serviceItemsMap,
     items |-> S.items,
     queryIdTypeMap |-> S.queryIdTypeMap,
     queryIdServiceMap |-> S.queryIdServiceMap,
     queryIdItemMap |-> S.queryIdItemMap,
     jdnsQueries |-> S.jdnsQueries,
     nextId |-> S.nextId,
     lists |-> [q \in DOMAIN S.serviceLists |-> S.serviceLists[q].items],
     nullAccess |-> S.nullAccess]

\* C21 Service-list idempotence: from every reachable state a second call of
\* updateServices() right after a first one leaves the type table, the
\* instance tables, the registered query ids (no scan restarted or doubled)
\* and the list of every user query as the first call left them.
C21_UpdateServicesIdempotent ==
    ~crashed =>
        Visible(UpdateServices(UpdateServices(Cur))) = Visible(UpdateServices(Cur))

\* a running lookup that holds an instance, where the first call changes the
\* type table and starts a scan
C21_Witness ==
    /\ ~crashed
    /\ running
    /\ lookupReady
    /\ TableItems # {}
    /\ ~UpdateServices(Cur).nullAccess
    /\ UpdateServices(Cur).serviceTypeMap # serviceTypeMap
    /\ DOMAIN UpdateServices(Cur).queryIdServiceMap # DOMAIN queryIdServiceMap

\* a primary filter on the instance name: names that contain "a"
NameFilter == [name |-> <<"a">>, txtRecords |-> <<>>]

\* what the user can write to the fields of the primary filter; no handler
\* of the engine runs when they do
PrimaryFilters == {NoFilter, TxtFilter, NameFilter}

\* the state after the user wrote f to the primary filter
WithFilter(f) == [Cur EXCEPT !.filter = f]

\* position of an item in a list of distinct items
PositionIn(list, item) == CHOOSE k \in 1 .. Len(list) : list[k] = item

\* in state S the list of user query q is the table of its service type:
\* whole for a query of record type A, else the instances of the table, in
\* table order and each once, that match the primary filter and the filter
\* of the query
IsProjection(S, q) ==
    LET query == S.serviceLists[q]
        list == S.serviceItemsMap[query.serviceType]
        got == query.items
    IN  IF query.queryType = A THEN got = list
        ELSE /\ SeqRange(got) =
                    {i \in SeqRange(list) :
                        /\ FilterServiceDiscoveryItem(S.items[i], S.filter)
                        /\ FilterServiceDiscoveryItem(S.items[i], query.filter)}
             /\ \A a, b \in 1 .. Len(got) :
                    a < b => PositionIn(list, got[a]) < PositionIn(list, got[b])

\* every user query of S whose service type is in the type table lists the
\* projection of the table
AllProjected(S) ==
    \A q \in DOMAIN S.serviceLists :
        S.serviceLists[q].serviceType \in DOMAIN S.serviceItemsMap => IsProjection(S, q)

\* C22 Projection and filtering: from every reachable state and for every
\* primary filter the user may have written, updateServiceType(type) gives
\* each user query of that type, when the type is in the type table, the
\* instances of the table of the type: all of them for a query of record
\* type A, else exactly those matching the primary filter and the query's
\* own filter; it changes no user query of another type and nothing else;
\* and after updateFilter() and after updateServices() every user query of
\* a type of the type table lists that projection.
C22_ProjectionAndFiltering ==
    ~crashed =>
        \A f \in PrimaryFilters :
            /\ \A t \in ServiceTypes \cup {NoServiceType} :
                    LET S1 == UpdateServiceType(WithFilter(f), t)
                    IN  /\ [S1 EXCEPT !.serviceLists = serviceLists] = WithFilter(f)
                        /\ \A q \in DOMAIN serviceLists :
                                IF serviceLists[q].serviceType = t
                                   /\ t \in DOMAIN serviceItemsMap
                                THEN /\ IsProjection(S1, q)
                                     /\ [S1.serviceLists[q] EXCEPT !.items = <<>>]
                                            = [serviceLists[q] EXCEPT !.items = <<>>]
                                ELSE S1.serviceLists[q] = serviceLists[q]
            /\ AllProjected(UpdateFilter(WithFilter(f)))
            /\ LET S2 == UpdateServices(WithFilter(f))
               IN  ~S2.nullAccess => AllProjected(S2)

\* two instances are in the table of a service type; the query of record
\* type A lists both, the query with the TXT filter only the one whose TXT
\* answer matches
C22_Witness ==
    /\ ~crashed
    /\ "s1" \in DOMAIN serviceItemsMap
    /\ Len(serviceItemsMap["s1"]) = 2
    /\ serviceLists[1].serviceType = "s1"
    /\ serviceLists[1].queryType = A
    /\ serviceLists[1].items = serviceItemsMap["s1"]
    /\ Len(serviceLists[2].items) = 1
    /\ UpdateServiceType(Cur, "s1") = Cur
    /\ UpdateServiceType(WithFilter(NameFilter), "s1") # WithFilter(NameFilter)

\* C23 Filter idempotence: from every reachable state and for every primary
\* filter the user may have written, a second updateFilter() right after a
\* first one changes nothing, the list of every user query included, and
\* updateFilter() changes nothing but the lists of the user queries: not
\* the registry, the type table, the instance tables, a field of an
\* instance, or the service type, record type and filter of a user query.
C23_UpdateFilterIdempotent ==
    ~crashed =>
        \A f \in PrimaryFilters :
            LET S1 == UpdateFilter(WithFilter(f))
            IN  /\ UpdateFilter(S1) = S1
                /\ [S1 EXCEPT !.serviceLists = serviceLists] = WithFilter(f)
                /\ \A q \in DOMAIN serviceLists :
                        [S1.serviceLists[q] EXCEPT !.items = <<>>]
                            = [serviceLists[q] EXCEPT !.items = <<>>]

\* the user wrote a name pattern to the primary filter of a lookup whose
\* query lists two instances, and the first updateFilter() takes one away
C23_Witness ==
    /\ ~crashed
    /\ \E q \in DOMAIN serviceLists :
            /\ Len(serviceLists[q].items) = 2
            /\ serviceLists[q].queryType # A
            /\ Len(UpdateFilter(WithFilter(NameFilter)).serviceLists[q].items) = 1

\* the sub-queries an instance with these record types answered is waiting
\* for: TXT and SRV, and the address once SRV was answered
Pending(answered) ==
    ({Txt} \ answered) \cup (IF Srv \in answered THEN {A} \ answered ELSE {Srv})

\* instance i is in its first resolution: one sub-query for every record
\* type it waits for, each registered with that type and bound to i
Resolving(i) ==
    LET out == items[i].outstandingRequests
    IN  /\ out \subseteq DOMAIN queryIdItemMap
        /\ \A id \in out : queryIdItemMap[id] = i /\ id \in jdnsQueries
        /\ {queryIdTypeMap[id] : id \in out} = Pending(items[i].answered)
        /\ Cardinality(out) = Cardinality(Pending(items[i].answered))
        /\ {id \in DOMAIN queryIdItemMap : queryIdItemMap[id] = i} = out

\* the positions of instance i in the list of user query q
EntriesOf(q, i) == {k \in 1 .. Len(serviceLists[q].items) : serviceLists[q].items[k] = i}

\* C24 Resolution pipeline: the PTR announcement of a new instance starts a
\* TXT and an SRV sub-query for it and nothing else; a sub-query bound to an
\* instance is a TXT, SRV or A query, never AAAA, and an A sub-query appears
\* only in the step that takes an SRV sub-query of the instance off the
\* registry; while the answers of the first resolution arrive, in any order,
\* the instance waits for exactly the record types not yet answered, so its
\* outstandingRequests is empty exactly when TXT, SRV and A are answered; in
\* that step errorCount is 0, updated is true, and every user query of its
\* type lists the projection of the table, with one entry for the instance
\* where it passes the filters, carrying the fields of the answers.
C24_ResolutionPipeline ==
    [][~crashed' =>
        /\ PtrStep("new") =>
                \E i \in TableItems' \ TableItems :
                    /\ TableItems' = TableItems \cup {i}
                    /\ items'[i].outstandingRequests = {nextId, nextId + 1}
                    /\ items'[i].answered = {}
                    /\ queryIdTypeMap'[nextId] = Txt
                    /\ queryIdTypeMap'[nextId + 1] = Srv
                    /\ nextId' = nextId + 2
                    /\ Resolving(i)'
        /\ \A id \in DOMAIN queryIdItemMap' :
                /\ queryIdTypeMap'[id] \in {Txt, Srv, A}
                /\ (queryIdTypeMap'[id] = A /\ id \notin DOMAIN queryIdItemMap) =>
                        \E srv \in (DOMAIN queryIdItemMap) \ DOMAIN queryIdItemMap' :
                            /\ queryIdTypeMap[srv] = Srv
                            /\ queryIdItemMap[srv] = queryIdItemMap'[id]
        /\ \A i \in TableItems \cap TableItems' :
                (Resolving(i) /\ items'[i].answered # items[i].answered) =>
                    /\ Resolving(i)'
                    /\ items'[i].outstandingRequests = {}
                            <=> items'[i].answered = {Txt, Srv, A}
                    /\ items'[i].outstandingRequests = {} =>
                            /\ items'[i].errorCount = 0
                            /\ items'[i].updated
                            /\ items'[i].txtRecords # <<>>
                            /\ items'[i].hostName # <<>>
                            /\ items'[i].port # 0
                            /\ items'[i].hostAddress # <<>>
                            /\ items'[i].name = items[i].name
                            /\ \A q \in DOMAIN serviceLists :
                                    serviceLists[q].serviceType = items[i].type =>
                                        /\ IsProjection(Cur', q)
                                        /\ Cardinality(EntriesOf(q, i)') <= 1
                                        /\ (serviceLists[q].queryType = A
                                                \/ /\ FilterServiceDiscoveryItem(items'[i], filter)
                                                   /\ FilterServiceDiscoveryItem(items'[i],
                                                            serviceLists[q].filter))
                                            => Cardinality(EntriesOf(q, i)') = 1]_vars

\* the TXT answer came last, after SRV and the address: the instance is
\* resolved and the query with the TXT filter lists it
C24_Witness ==
    /\ ~crashed
    /\ event.op = "resultsReady"
    /\ event.case = "last"
    /\ event.type = Txt
    /\ event.item \in TableItems
    /\ items[event.item].answered = {Txt, Srv, A}
    /\ items[event.item].outstandingRequests = {}
    /\ items[event.item].updated
    /\ serviceLists[2].items = <<event.item>>

\* the step of addNameServer, removeNameServer or clearNameServers
NamesStep ==
    /\ event'.op = "nameServers"
    /\ ~crashed'

\* the user's name servers that have an address, in order
GivenNameServers(list) == SelectSeq(list, LAMBDA n : n # NullNameServer)

\* C25 Nameserver change: a change of the user's name servers pushes a list
\* to the backend only in unicast mode with a backend: the user's servers
\* that have an address or, when there is none, the system's.  If the
\* lookup is running, every service type with a scan is then refreshed: its
\* scan is cancelled and deregistered, a new one is registered, and every
\* instance of its table goes through one purge pass (updated cleared, or
\* errorCount incremented and the instance removed beyond the threshold).
\* In multicast mode or without a backend nothing but the user's list
\* changes; when not running, nothing but the two lists.
C25_NameServerChange ==
    [][NamesStep =>
        /\ UNCHANGED <<running, networkReady, lookupReady, lookupMode, jdns,
                       timerActive, serviceTypeMap, filter>>
        /\ IF jdns /\ lookupMode = UnicastDNS
           THEN jdnsNameServers' =
                    IF GivenNameServers(nameServers') # <<>>
                    THEN GivenNameServers(nameServers')
                    ELSE SystemNameServers
           ELSE UNCHANGED jdnsNameServers
        /\ IF jdns /\ lookupMode = UnicastDNS /\ running
           THEN /\ DOMAIN serviceItemsMap' = DOMAIN serviceItemsMap
                /\ \A t \in DOMAIN serviceItemsMap :
                    IF ScansOf(queryIdServiceMap, t) = {}
                    THEN /\ serviceItemsMap'[t] = serviceItemsMap[t]
                         /\ \A i \in SeqRange(serviceItemsMap[t]) : items'[i] = items[i]
                    ELSE /\ \E old \in ScansOf(queryIdServiceMap, t) :
                            \E new \in ScansOf(queryIdServiceMap', t) :
                                /\ old \notin DOMAIN queryIdTypeMap'
                                /\ old \notin jdnsQueries'
                                /\ new >= nextId
                                /\ new \in jdnsQueries'
                                /\ queryIdTypeMap'[new] = serviceTypeMap[t]
                                /\ ScansOf(queryIdServiceMap', t) =
                                     (ScansOf(queryIdServiceMap, t) \ {old}) \cup {new}
                         /\ \A i \in SeqRange(serviceItemsMap[t]) :
                                IF items[i].updated
                                THEN /\ i \in SeqRange(serviceItemsMap'[t])
                                     /\ ~items'[i].updated
                                     /\ items'[i].errorCount = items[i].errorCount
                                ELSE IF items[i].errorCount + 1 > UnicastErrorThreshold
                                THEN /\ i \notin DOMAIN items'
                                     /\ i \notin SeqRange(serviceItemsMap'[t])
                                     /\ \A id \in DOMAIN queryIdItemMap' :
                                            queryIdItemMap'[id] # i
                                ELSE /\ i \in SeqRange(serviceItemsMap'[t])
                                     /\ ~items'[i].updated
                                     /\ items'[i].errorCount = items[i].errorCount + 1
           ELSE UNCHANGED <<nextId, jdnsQueries, queryIdTypeMap, queryIdServiceMap,
                            queryIdItemMap, serviceItemsMap, items, serviceLists>>]_vars

\* a name server with an address was added next to one without while the
\* unicast lookup was running: it alone was pushed, and the purge pass of
\* the refresh counted a miss for an instance
C25_Witness ==
    /\ ~crashed
    /\ event.op = "nameServers"
    /\ lookupMode = UnicastDNS
    /\ running
    /\ jdns
    /\ Len(nameServers) = 2
    /\ jdnsNameServers = <<"ns1">>
    /\ \E i \in TableItems : items[i].errorCount > 0

\* C26 Result handlers always have an instance: in every reachable state
\* with a backend, for every query id of the registry and every response the
\* backend can send for it (several answer records and scans declared with
\* record type A included), resultsReady makes no access through a null
\* item pointer: addItem returns an instance for a PTR record with ttl > 0
\* and the id is bound in idToInstance when a TXT, SRV or address record is
\* handled.
C26_HandlersHaveInstance ==
    (~crashed /\ jdns) =>
        \A id \in DOMAIN queryIdTypeMap :
            \A results \in ResponsesFor(id) :
                LET S == ResultsReady(Cur, id, results)
                IN  ~S.full => ~S.nullAccess

\* C27 User lists hold only live instances: in every state a handler has
\* left, every instance in the list of a user query is a live object and a
\* member of an instance table, also after updateServices() has removed a
\* service type that no user query names any more.
C27_ListsHoldLiveInstances ==
    ~crashed =>
        \A q \in DOMAIN serviceLists :
            SeqRange(serviceLists[q].items) \subseteq (TableItems \cap DOMAIN items)

\* C28 Unicast refresh timer follows the lifecycle: in every state a handler
\* has left, the unicast refresh timer is active if and only if the lookup
\* is running, the backend is ready and the mode is unicast, whatever the
\* order of setRunning, setLookupMode, session opened, session closed and
\* failed initialisations.
C28_TimerFollowsLifecycle ==
    ~crashed =>
        (timerActive <=> (running /\ lookupReady /\ lookupMode = UnicastDNS))

\* the timer is stopped for a lookup that is ready in unicast mode and has
\* been switched off while it held instances
C28_Witness ==
    /\ ~crashed
    /\ ~timerActive /\ ~running /\ lookupReady /\ lookupMode = UnicastDNS
    /\ \E q \in DOMAIN serviceLists : serviceLists[q].declared

\* the query ids m_queryIdItemMap binds to the item
BoundTo(S, item) ==
    {id \in DOMAIN S.queryIdItemMap : S.queryIdItemMap[id] = item}

\* C29 Outstanding requests mirror the registry: in every state a callback
\* has left, for every instance of an instance table and every query id, the
\* id is among the outstanding requests of the instance if and only if
\* m_queryIdItemMap binds the id to the instance; an error of the backend
\* for a sub-query leaves the id with the instance and in the registry.
C29_RequestsMirrorRegistry ==
    ~crashed =>
        /\ \A i \in TableItems \cap DOMAIN items :
               items[i].outstandingRequests = BoundTo(Cur, i)
        /\ \A id \in DOMAIN queryIdItemMap :
               \A e \in ErrorKinds :
                   LET S == Error(Cur, id, e)
                       i == queryIdItemMap[id]
                   IN  i \in TableItems =>
                           /\ i \in DOMAIN S.items
                           /\ id \in S.items[i].outstandingRequests
                           /\ BoundTo(S, i) = S.items[i].outstandingRequests

\* the backend has reported an error for a sub-query of an instance that
\* has another sub-query answered: the instance keeps the failed request
C29_Witness ==
    /\ ~crashed
    /\ event.op = "error" /\ event.known = "item"
    /\ \E i \in TableItems \cap DOMAIN items :
           /\ Cardinality(items[i].outstandingRequests) = 1
           /\ items[i].outstandingRequests = BoundTo(Cur, i)
           /\ items[i].answered # {}
====
